---- MODULE Spec2Model ----
(***************************************************************************)
(* Model of src/utils.py: the ECOLDataset directory scan, the              *)
(* class-balancing index selector get_balanced_indices, the train /        *)
(* validation split of load_dataset_ECOL_labeled, and the MetricTracker    *)
(* confusion-matrix accumulator.                                           *)
(*                                                                         *)
(* Conventions.  A directory or file name is a sequence of character       *)
(* codes, ordered as Python orders str (lexicographically by code point).  *)
(* A real number (test_size, a loss average, a metric) is an exact         *)
(* fraction [num, den] in lowest terms; IEEE rounding is not modelled.     *)
(* A sigmoid value is kept in thousandths.  np.random.choice with          *)
(* replace=False is a nondeterministic choice of an arrangement.           *)
(***************************************************************************)
EXTENDS Integers, Sequences, FiniteSets, TLC

VARIABLES
    tree,              \* the directory tree under root_dir: subdir name -> number of files
    dataset,           \* the ECOLDataset object built last
    ret,               \* what the call made last returned (or the error it raised)
    batches_cnt,       \* MetricTracker.batches_cnt
    total_loss,        \* MetricTracker.total_loss
    avg_loss,          \* MetricTracker.avg_loss
    confusion_cnt,     \* MetricTracker.confusion_cnt
    confusion_arrays,  \* MetricTracker.confusion_arrays
    confusion_paths,   \* MetricTracker.confusion_paths
    loss_args,         \* history: the loss argument of every update call, in order
    labels_seen,       \* history: how many labels the update calls went through
    paths_always       \* history: every update call so far was given paths

dataVars == <<tree, dataset>>
trackerVars == <<batches_cnt, total_loss, avg_loss,
                 confusion_cnt, confusion_arrays, confusion_paths>>
historyVars == <<loss_args, labels_seen, paths_always>>
vars == <<tree, dataset, ret, batches_cnt, total_loss, avg_loss,
          confusion_cnt, confusion_arrays, confusion_paths,
          loss_args, labels_seen, paths_always>>

----------------------------------------------------------------------------
(* Bounds of the model. *)

\* the most files under root_dir, over all its subdirectories
MaxSamples == 3
\* the most update calls made on one tracker
MaxUpdates == 2
\* the most labels one tracker is fed, over all its update calls
MaxLabels == 2

----------------------------------------------------------------------------
(* Sequences, names and fractions. *)

RECURSIVE SumSeq(_)
SumSeq(s) == IF s = <<>> THEN 0 ELSE Head(s) + SumSeq(Tail(s))

Min(a, b) == IF a <= b THEN a ELSE b

\* s[from+1 .. to] for 0 <= from, clipped to the sequence as a Python slice is
Slice(s, from, to) ==
    LET lo == Min(from, Len(s))
        hi == Min(to, Len(s))
    IN  IF hi <= lo THEN <<>> ELSE SubSeq(s, lo + 1, hi)

Range(s) == {s[i] : i \in 1..Len(s)}

\* Python's str comparison a < b
RECURSIVE StrLess(_, _)
StrLess(a, b) ==
    IF b = <<>> THEN FALSE
    ELSE IF a = <<>> THEN TRUE
    ELSE IF Head(a) # Head(b) THEN Head(a) < Head(b)
    ELSE StrLess(Tail(a), Tail(b))

\* one step of list.sort: x put into the ascending list s
RECURSIVE Insert(_, _)
Insert(x, s) ==
    IF s = <<>> THEN <<x>>
    ELSE IF StrLess(x, Head(s)) THEN <<x>> \o s
    ELSE <<Head(s)>> \o Insert(x, Tail(s))

\* the list left in the order the listing gave
Unsorted(s) == s

\* list.sort() of a list of names
RECURSIVE Sort(_)
Sort(s) == IF s = <<>> THEN <<>> ELSE Insert(Head(s), Sort(Tail(s)))

\* every order in which the elements of S can be listed k at a time
RECURSIVE Arrangements(_, _)
Arrangements(S, k) ==
    IF k = 0 THEN {<<>>}
    ELSE UNION {{<<x>> \o t : t \in Arrangements(S \ {x}, k - 1)} : x \in S}

Listings(S) == Arrangements(S, Cardinality(S))

RECURSIVE GCD(_, _)
GCD(a, b) == IF b = 0 THEN a ELSE GCD(b, a % b)

Abs(a) == IF a < 0 THEN -a ELSE a

\* a / b for b > 0, as a fraction in lowest terms
Div(a, b) ==
    LET g == GCD(Abs(a), b)
    IN  [num |-> a \div g, den |-> b \div g]

----------------------------------------------------------------------------
(* The directory tree. *)

\* the names a subdirectory of root_dir can have: "1", "10", "2"
DirNames == {<<49>>, <<49, 48>>, <<50>>}

FileCount(t) ==
    LET RECURSIVE Total(_)
        Total(D) == IF D = {} THEN 0
                    ELSE LET d == CHOOSE x \in D : TRUE
                         IN  t[d] + Total(D \ {d})
    IN  Total(DOMAIN t)

Trees ==
    {t \in UNION {[D -> 0..MaxSamples] : D \in SUBSET DirNames} :
        FileCount(t) <= MaxSamples}

EmptyTree == [d \in {} |-> 0]

\* the files of subdirectory d, named 1 .. tree[d]
Files(d) == 1..tree[d]

----------------------------------------------------------------------------
(* ECOLDataset *)

NoDataset == [tag |-> "none"]

\* os.listdir of every subdirectory: a function from DirNames' members in D to a listing
RECURSIVE FileListings(_)
FileListings(D) ==
    IF D = {} THEN {EmptyTree}
    ELSE LET d == CHOOSE x \in D : TRUE
         IN  {(d :> l) @@ f : l \in Listings(Files(d)), f \in FileListings(D \ {d})}

\* the (path, label) pairs of the subdirectories in subdirs, in that order
RECURSIVE CollectSamples(_, _, _)
CollectSamples(subdirs, dir_label_map, fileListing) ==
    IF subdirs = <<>> THEN <<>>
    ELSE LET subdir == Head(subdirs)
         IN  [i \in 1..Len(fileListing[subdir]) |->
                 [path |-> <<subdir, fileListing[subdir][i]>>,
                  label |-> dir_label_map[subdir]]]
             \o CollectSamples(Tail(subdirs), dir_label_map, fileListing)

\* enumerate(self.subdirs): the label of the subdirectory at (1-based) position i
EnumerateLabel(i) == i - 1

ECOLDataset(rootListing, fileListing) ==
    LET subdirs == Sort(rootListing)
        dir_label_map == [d \in Range(subdirs) |->
            EnumerateLabel(CHOOSE i \in 1..Len(subdirs) : subdirs[i] = d)]
        samples == CollectSamples(subdirs, dir_label_map, fileListing)
    IN  [tag |-> "ECOLDataset", subdirs |-> subdirs,
         dir_label_map |-> dir_label_map,
         samples |-> samples, len |-> Len(samples)]

----------------------------------------------------------------------------
(* get_balanced_indices *)

\* the same comprehension counting positions from 1
RECURSIVE IndicesWithLabelOneBased(_, _, _)
IndicesWithLabelOneBased(samples, label, from) ==
    IF from > Len(samples) THEN <<>>
    ELSE (IF samples[from].label = label THEN <<from>> ELSE <<>>)
         \o IndicesWithLabelOneBased(samples, label, from + 1)

\* [i for i in range(len(samples)) if samples[i][1] == label], from position `from` on
RECURSIVE IndicesWithLabel(_, _, _)
IndicesWithLabel(samples, label, from) ==
    IF from > Len(samples) THEN <<>>
    ELSE (IF samples[from].label = label THEN <<from - 1>> ELSE <<>>)
         \o IndicesWithLabel(samples, label, from + 1)

\* np.random.choice(a, size, replace=False) raises ValueError
ChoiceFails(a, size) == size > Len(a)

\* what np.random.choice(a, size, replace=False) can return when it does not raise
RandomChoice(a, size) ==
    {[i \in 1..size |-> a[p[i]]] : p \in Arrangements(1..Len(a), size)}

\* the two arrays stacked the other way round
HStackReversed(a, b) == b \o a

\* np.hstack([a, b])
HStack(a, b) == a \o b

\* the label the selector takes as the positive class, and the one it samples
PositiveLabel == 1
NegativeLabel == 0

\* get_balanced_indices drawing the label-0 indices with replacement
BalancedOutcomesWithReplacement(ds) ==
    LET positive_indices == IndicesWithLabel(ds.samples, PositiveLabel, 1)
        negative_indices == IndicesWithLabel(ds.samples, NegativeLabel, 1)
    IN  IF negative_indices = <<>> /\ positive_indices # <<>>
        THEN {[status |-> "ValueError"]}
        ELSE {[status |-> "ok", indices |-> HStack(positive_indices, nb)] :
                 nb \in [1..Len(positive_indices) -> Range(negative_indices)]}

\* what get_balanced_indices(ds) can do: raise, or return one of these arrays
BalancedOutcomes(ds) ==
    LET positive_indices == IndicesWithLabel(ds.samples, PositiveLabel, 1)
        negative_indices == IndicesWithLabel(ds.samples, NegativeLabel, 1)
    IN  IF ChoiceFails(negative_indices, Len(positive_indices))
        THEN {[status |-> "ValueError"]}
        ELSE {[status |-> "ok", indices |-> HStack(positive_indices, nb)] :
                 nb \in RandomChoice(negative_indices, Len(positive_indices))}

----------------------------------------------------------------------------
(* load_dataset_ECOL_labeled *)

\* dataset_size=None
None == -1

\* the dataset_size arguments tried: None, and 0 up to one more than any dataset holds
DatasetSizes == {None} \cup 0..(MaxSamples + 1)

\* the test_size arguments tried: 0, 0.2 (the default), 0.5 and 1
TestSizes == {[num |-> 0, den |-> 1], [num |-> 1, den |-> 5],
              [num |-> 1, den |-> 2], [num |-> 1, den |-> 1]}

\* int(np.floor(test_size * dataset_size)) for dataset_size >= 0
ValSplitIndex(test_size, dataset_size) == (test_size.num * dataset_size) \div test_size.den

\* the dataset_size the split works with when balance is set
ClipSize(dataset_indices, dataset_size) ==
    IF Len(dataset_indices) < dataset_size THEN Len(dataset_indices) ELSE dataset_size

\* the dataset_size the split works with when balance is not set
KeepSize(dataset_indices, dataset_size) == dataset_size

\* dataset_indices[:val_split_index]
ValIndices(dataset_indices, val_split_index) == Slice(dataset_indices, 0, val_split_index)

\* dataset_indices[val_split_index:]
TrainIndices(dataset_indices, val_split_index) ==
    Slice(dataset_indices, val_split_index, Len(dataset_indices))

\* lines 209-238: the selection, the split and the two loaders
SplitOutcomes(call, dataset_indices, dataset_size) ==
    LET Loaders(selected) ==
            LET val_split_index == ValSplitIndex(call.test_size, dataset_size)
            IN  call @@ [status |-> "ok", dataset_size |-> dataset_size,
                         selected |-> selected,
                         val_split_index |-> val_split_index,
                         train |-> TrainIndices(selected, val_split_index),
                         val |-> ValIndices(selected, val_split_index)]
    IN  IF call.shuffle
        THEN IF ChoiceFails(dataset_indices, dataset_size)
             THEN {call @@ [status |-> "ValueError"]}
             ELSE {Loaders(s) : s \in RandomChoice(dataset_indices, dataset_size)}
        ELSE {Loaders(Slice(dataset_indices, 0, dataset_size))}

\* what load_dataset_ECOL_labeled can do once it has built the dataset ds
LoadOutcomes(ds, balance, shuffle, size_arg, test_size) ==
    LET dataset_size == IF size_arg = None THEN ds.len ELSE size_arg
        call == [op |-> "load_dataset_ECOL_labeled", balance |-> balance,
                 shuffle |-> shuffle, test_size |-> test_size, size_arg |-> size_arg]
    IN  IF balance
        THEN UNION {
               IF b.status = "ok"
               THEN SplitOutcomes(call @@ [balanced |-> b.indices], b.indices,
                                  ClipSize(b.indices, dataset_size))
               ELSE {call @@ [status |-> b.status]}
               : b \in BalancedOutcomes(ds)}
        ELSE LET dataset_indices == [i \in 1..ds.len |-> i - 1]
             IN  SplitOutcomes(call, dataset_indices,
                               KeepSize(dataset_indices, dataset_size))

----------------------------------------------------------------------------
(* The tracker after MetricTracker(), and the operations on the data. *)

Keys == {"tp", "tn", "fp", "fn"}

NoCall == [op |-> "none"]

TrackerInit ==
    /\ batches_cnt = 0
    /\ total_loss = 0
    /\ avg_loss = [num |-> 0, den |-> 1]
    /\ confusion_cnt = [k \in Keys |-> 0]
    /\ confusion_arrays = [k \in Keys |-> <<>>]
    /\ confusion_paths = [k \in Keys |-> <<>>]
    /\ loss_args = <<>>
    /\ labels_seen = 0
    /\ paths_always = TRUE

InitData ==
    /\ tree \in Trees
    /\ dataset = NoDataset
    /\ ret = NoCall
    /\ TrackerInit

\* ECOLDataset(root_dir): the two os.listdir calls may list in any order
Construct ==
    \E rootListing \in Listings(DOMAIN tree), fileListing \in FileListings(DOMAIN tree) :
        /\ dataset' = ECOLDataset(rootListing, fileListing)
        /\ ret' = [op |-> "ECOLDataset"]
        /\ UNCHANGED <<tree, trackerVars, historyVars>>

\* get_balanced_indices(dataset)
GetBalancedIndices ==
    /\ dataset # NoDataset
    /\ \E b \in BalancedOutcomes(dataset) :
           ret' = [op |-> "get_balanced_indices"] @@ b
    /\ UNCHANGED <<tree, dataset, trackerVars, historyVars>>

\* load_dataset_ECOL_labeled(root_dir, ..., shuffle, balance, dataset_size, test_size).
\* The function reads nothing but the directory tree, so it is applied once, to the
\* tree Init drew.
Load ==
    /\ ret = NoCall
    /\ \E rootListing \in Listings(DOMAIN tree), fileListing \in FileListings(DOMAIN tree),
          balance \in BOOLEAN, shuffle \in BOOLEAN,
          size_arg \in DatasetSizes, test_size \in TestSizes :
         LET ds == ECOLDataset(rootListing, fileListing)
         IN  /\ dataset' = ds
             /\ ret' \in LoadOutcomes(ds, balance, shuffle, size_arg, test_size)
             /\ UNCHANGED <<tree, trackerVars, historyVars>>

NextDataset == Construct \/ GetBalancedIndices

SpecDataset == InitData /\ [][NextDataset]_vars

NextLoader == Load \/ GetBalancedIndices

SpecLoader == InitData /\ [][NextLoader]_vars

----------------------------------------------------------------------------
(* MetricTracker *)

\* the raw predictions (logits) a batch can hold
Logits == {-1, 0, 1}

\* the labels a batch can hold
Labels == {0, 1}

\* the loss arguments tried
Losses == {1, 2}

\* torch.sigmoid(x), in thousandths
Sigmoid(x) == CASE x = -1 -> 269 [] x = 0 -> 500 [] x = 1 -> 731

\* 0.5, in thousandths
Threshold == 500

\* the comparison taken as preds_sigmoid >= 0.5
PredsBinaryAtLeast(preds_sigmoid) ==
    [i \in 1..Len(preds_sigmoid) |-> IF preds_sigmoid[i] >= Threshold THEN 1 ELSE 0]

\* preds_sigmoid > 0.5, as the 0 or 1 the comparisons of update read it as
PredsBinary(preds_sigmoid) ==
    [i \in 1..Len(preds_sigmoid) |-> IF preds_sigmoid[i] > Threshold THEN 1 ELSE 0]

\* the if / elif chain of update
CurrKey(pred_binary, label) ==
    IF pred_binary = 0 /\ label = 0 THEN "tn"
    ELSE IF pred_binary = 1 /\ label = 1 THEN "tp"
    ELSE IF pred_binary = 0 /\ label = 1 THEN "fn"
    ELSE "fp"

\* the path appended without the "paths is not None" test
AppendPathAlways(cpaths, curr_key, given, path) ==
    [cpaths EXCEPT ![curr_key] = Append(@, path)]

\* self.confusion_paths after one pass of the loop body; given is "paths is not None"
AppendPath(cpaths, curr_key, given, path) ==
    IF given THEN [cpaths EXCEPT ![curr_key] = Append(@, path)] ELSE cpaths

\* the for loop of update from element i on; c holds the three confusion dictionaries,
\* and paths is read only when given
RECURSIVE UpdateLoop(_, _, _, _, _, _, _)
UpdateLoop(c, preds_sigmoid, preds_binary, labels, given, paths, i) ==
    IF i > Len(labels) THEN c
    ELSE LET curr_key == CurrKey(preds_binary[i], labels[i])
         IN  UpdateLoop(
                 [cnt    |-> [c.cnt EXCEPT ![curr_key] = @ + 1],
                  arrays |-> [c.arrays EXCEPT ![curr_key] = Append(@, preds_sigmoid[i])],
                  paths  |-> AppendPath(c.paths, curr_key, given, paths[i])],
                 preds_sigmoid, preds_binary, labels, given, paths, i + 1)

\* the average taken over the calls before this one
AvgLossBeforeIncrement(total, batches) == Div(total, IF batches > 1 THEN batches - 1 ELSE 1)

\* self.total_loss / self.batches_cnt
AvgLoss(total, batches) == Div(total, batches)

\* MetricTracker.update(loss, preds, labels, paths); a batch's paths are its files 1..n
Update ==
    /\ batches_cnt < MaxUpdates
    /\ \E n \in 0..(MaxLabels - labels_seen), loss \in Losses, given \in BOOLEAN :
       \E preds \in [1..n -> Logits], labels \in [1..n -> Labels] :
         LET paths == [i \in 1..n |-> i]
             preds_sigmoid == [i \in 1..n |-> Sigmoid(preds[i])]
             c == UpdateLoop([cnt |-> confusion_cnt, arrays |-> confusion_arrays,
                              paths |-> confusion_paths],
                             preds_sigmoid, PredsBinary(preds_sigmoid), labels,
                             given, paths, 1)
         IN  /\ batches_cnt' = batches_cnt + 1
             /\ total_loss' = total_loss + loss
             /\ avg_loss' = AvgLoss(total_loss', batches_cnt')
             /\ confusion_cnt' = c.cnt
             /\ confusion_arrays' = c.arrays
             /\ confusion_paths' = c.paths
             /\ ret' = [op |-> "update", labels |-> labels, preds |-> preds,
                        given |-> given]
             /\ loss_args' = Append(loss_args, loss)
             /\ labels_seen' = labels_seen + n
             /\ paths_always' = (paths_always /\ given)
             /\ UNCHANGED dataVars

\* np.sum([cnt for _, cnt in self.confusion_cnt.items()])
ConfusionCntSum(cnt) == cnt["tp"] + cnt["tn"] + cnt["fp"] + cnt["fn"]

\* k * q for a fraction q
Times(k, q) == Div(k * q.num, q.den)

\* the 100 of "return 100 * accuracy"
Percent == 100

\* get_accuracy: a Python int divided by a numpy integer 0 is nan, not an exception
AccuracyOutcome(cnt) ==
    LET confusion_cnt_sum == ConfusionCntSum(cnt)
        accuracy == cnt["tp"] + cnt["tn"]
    IN  IF confusion_cnt_sum = 0
        THEN [op |-> "get_accuracy", status |-> "nan"]
        ELSE [op |-> "get_accuracy", status |-> "ok",
              value |-> Times(Percent, Div(accuracy, confusion_cnt_sum))]

\* get_precision dividing by tp + fn
PrecisionOutcomeByRecall(cnt) ==
    IF cnt["tp"] + cnt["fn"] = 0
    THEN [op |-> "get_precision", status |-> "ZeroDivisionError"]
    ELSE [op |-> "get_precision", status |-> "ok",
          value |-> Div(cnt["tp"], cnt["tp"] + cnt["fn"])]

\* get_precision: a Python int divided by the Python int 0 raises
PrecisionOutcome(cnt) ==
    IF cnt["tp"] + cnt["fp"] = 0
    THEN [op |-> "get_precision", status |-> "ZeroDivisionError"]
    ELSE [op |-> "get_precision", status |-> "ok",
          value |-> Div(cnt["tp"], cnt["tp"] + cnt["fp"])]

\* get_recall
RecallOutcome(cnt) ==
    IF cnt["tp"] + cnt["fn"] = 0
    THEN [op |-> "get_recall", status |-> "ZeroDivisionError"]
    ELSE [op |-> "get_recall", status |-> "ok",
          value |-> Div(cnt["tp"], cnt["tp"] + cnt["fn"])]

GetAccuracy ==
    /\ ret' = AccuracyOutcome(confusion_cnt)
    /\ UNCHANGED <<dataVars, trackerVars, historyVars>>

GetPrecision ==
    /\ ret' = PrecisionOutcome(confusion_cnt)
    /\ UNCHANGED <<dataVars, trackerVars, historyVars>>

GetRecall ==
    /\ ret' = RecallOutcome(confusion_cnt)
    /\ UNCHANGED <<dataVars, trackerVars, historyVars>>

InitTracker ==
    /\ tree = EmptyTree
    /\ dataset = NoDataset
    /\ ret = NoCall
    /\ TrackerInit

NextTracker == Update \/ GetAccuracy \/ GetPrecision \/ GetRecall

SpecTracker == InitTracker /\ [][NextTracker]_vars

----------------------------------------------------------------------------
(* What the properties below are stated with. *)

\* how many samples of ds carry the label l
CountLabel(ds, l) == Cardinality({i \in 1..ds.len : ds.samples[i].label = l})

\* the label of the sample at (0-based) position idx
LabelAt(ds, idx) == ds.samples[idx + 1].label

\* how many entries of the index array s point at a sample with label l
CountIn(s, ds, l) == Cardinality({i \in 1..Len(s) : LabelAt(ds, s[i]) = l})

NoRepeat(s) == \A i, j \in 1..Len(s) : s[i] = s[j] => i = j

IsPrefix(p, s) == Len(p) <= Len(s) /\ p = SubSeq(s, 1, Len(p))

\* m = floor(q * n) for a fraction q >= 0
IsFloorOf(m, q, n) == m * q.den <= q.num * n /\ q.num * n < (m + 1) * q.den

Returned(op) == ret.op = op /\ ret.status = "ok"

----------------------------------------------------------------------------
(* Properties of the dataset scan and of the index selector (SpecDataset). *)

PositionAmongDirs(d) == Cardinality({e \in DOMAIN tree : StrLess(e, d)})

C6_Labels ==
    dataset # NoDataset =>
        /\ \A i \in 1..Len(dataset.samples) :
               dataset.samples[i].label = PositionAmongDirs(dataset.samples[i].path[1])
        /\ Len(dataset.samples) = FileCount(tree)
        /\ dataset.len = FileCount(tree)

C6_SameLabels ==
    (dataset # NoDataset /\ dataset' # NoDataset) =>
        \A i \in 1..Len(dataset.samples), j \in 1..Len(dataset'.samples) :
            dataset.samples[i].path = dataset'.samples[j].path =>
                dataset.samples[i].label = dataset'.samples[j].label

\* C6: every sample's label is the position of its parent directory's name in the
\* ascending list of the root's subdirectory names, in whatever order the listings
\* came; the dataset is as long as there are files; and a later construction over
\* the same tree gives every path the label the earlier one gave it.
C6_DirectoryLabels == [](C6_Labels) /\ [][C6_SameLabels]_vars

\* a dataset with files in "10" and in "2", which string order and numeric order
\* label differently
C6_Witness ==
    /\ dataset # NoDataset
    /\ DOMAIN tree = DirNames
    /\ \E i, j \in 1..Len(dataset.samples) :
           /\ dataset.samples[i].path[1] = <<49, 48>> /\ dataset.samples[i].label = 1
           /\ dataset.samples[j].path[1] = <<50>> /\ dataset.samples[j].label = 2

----------------------------------------------------------------------------
(* Properties of load_dataset_ECOL_labeled (SpecLoader). *)

\* the indices of the two loaders together
Handed == ret.val \o ret.train

\* C2: with balance=True the indices handed to the two loaders hold as many label-1
\* as label-0 samples.
C2_LoadersBalanced ==
    (Returned("load_dataset_ECOL_labeled") /\ ret.balance) =>
        CountIn(Handed, dataset, 1) = CountIn(Handed, dataset, 0)

\* C7: when the call returns, the train and the validation indices share no index,
\* together they are the selected indices, and there are floor(test_size * k)
\* validation indices, k being the number of selected indices.
C7_Split ==
    Returned("load_dataset_ECOL_labeled") =>
        /\ Range(ret.train) \cap Range(ret.val) = {}
        /\ Handed = ret.selected
        /\ IsFloorOf(Len(ret.val), ret.test_size, Len(ret.selected))

\* C9: with balance=True and shuffle=False the selected indices are a prefix of
\* "every label-1 index, then the label-0 indices drawn", the validation indices are
\* the first floor(test_size * dataset_size) of them, and for test_size <= 0.5 every
\* validation index is a label-1 sample.
C9_ValidationAllPositive ==
    (Returned("load_dataset_ECOL_labeled") /\ ret.balance /\ ~ret.shuffle) =>
        LET p == CountLabel(dataset, 1)
        IN  /\ Len(ret.balanced) = 2 * p
            /\ \A i \in 1..Len(ret.balanced) :
                   LabelAt(dataset, ret.balanced[i]) = (IF i <= p THEN 1 ELSE 0)
            /\ NoRepeat(ret.balanced)
            /\ IsPrefix(ret.selected, ret.balanced)
            /\ IsPrefix(ret.val, ret.selected)
            /\ IsFloorOf(Len(ret.val), ret.test_size, ret.dataset_size)
            /\ (2 * ret.test_size.num <= ret.test_size.den =>
                   \A i \in 1..Len(ret.val) : LabelAt(dataset, ret.val[i]) = 1)

\* an unshuffled balanced call that put a sample into validation and one into training
C9_Witness ==
    /\ Returned("load_dataset_ECOL_labeled") /\ ret.balance /\ ~ret.shuffle
    /\ 2 * ret.test_size.num <= ret.test_size.den
    /\ Len(ret.val) >= 1
    /\ Len(ret.train) >= 1

\* C10: with fewer label-0 than label-1 samples get_balanced_indices raises and
\* returns no array, and load_dataset_ECOL_labeled with balance=True raises too and
\* builds no loader.
C10_TooFewNegatives ==
    (dataset # NoDataset /\ CountLabel(dataset, 0) < CountLabel(dataset, 1)) =>
        /\ ret.op = "get_balanced_indices" =>
               ret.status = "ValueError" /\ "indices" \notin DOMAIN ret
        /\ (ret.op = "load_dataset_ECOL_labeled" /\ ret.balance) =>
               /\ ret.status = "ValueError"
               /\ "train" \notin DOMAIN ret
               /\ "val" \notin DOMAIN ret

\* get_balanced_indices raised on a dataset that does hold label-0 samples
C10_Witness ==
    /\ dataset # NoDataset
    /\ ret.op = "get_balanced_indices"
    /\ ret.status = "ValueError"
    /\ CountLabel(dataset, 0) >= 1

----------------------------------------------------------------------------
(* Properties of MetricTracker (SpecTracker). *)

\* the bucket the claim gives an element with sigmoid value sg (in thousandths) and
\* binary label l
ClaimedBucket(sg, l) ==
    CASE sg > 500 /\ l = 1 -> "tp"
      [] sg =< 500 /\ l = 0 -> "tn"
      [] sg > 500 /\ l = 0 -> "fp"
      [] sg =< 500 /\ l = 1 -> "fn"

\* the sigmoid values of the elements of a batch that the claim puts into bucket k,
\* in batch order, from element i on
RECURSIVE ClaimedValues(_, _, _, _)
ClaimedValues(preds, labels, k, i) ==
    IF i > Len(labels) THEN <<>>
    ELSE (IF ClaimedBucket(Sigmoid(preds[i]), labels[i]) = k
          THEN <<Sigmoid(preds[i])>> ELSE <<>>)
         \o ClaimedValues(preds, labels, k, i + 1)

UpdateStep == batches_cnt' # batches_cnt

C3_Step ==
    UpdateStep =>
        \A k \in Keys :
            LET put == ClaimedValues(ret'.preds, ret'.labels, k, 1)
            IN  /\ confusion_arrays'[k] = confusion_arrays[k] \o put
                /\ confusion_cnt'[k] = confusion_cnt[k] + Len(put)

\* C3: update puts every element of a batch into exactly one bucket: tp iff its
\* sigmoid is above 0.5 and its label is 1, tn iff its sigmoid is at most 0.5 and its
\* label is 0, fp iff above 0.5 with label 0, fn iff at most 0.5 with label 1.
C3_Buckets == [][C3_Step]_vars

\* the last batch held an element whose sigmoid is exactly 0.5 and one above it
C3_Witness ==
    /\ ret.op = "update"
    /\ \E i, j \in 1..Len(ret.labels) :
           /\ ret.preds[i] = 0 /\ ret.labels[i] = 1
           /\ ret.preds[j] = 1 /\ ret.labels[j] = 1
    /\ confusion_cnt["fn"] >= 1
    /\ confusion_cnt["tp"] >= 1

C4_Counts ==
    /\ \A k \in Keys :
           /\ confusion_cnt[k] = Len(confusion_arrays[k])
           /\ Len(confusion_paths[k]) <= confusion_cnt[k]
           /\ paths_always => Len(confusion_paths[k]) = confusion_cnt[k]
    /\ confusion_cnt["tp"] + confusion_cnt["tn"] + confusion_cnt["fp"]
           + confusion_cnt["fn"] = labels_seen

C4_NoPathsStep == (UpdateStep /\ ~ret'.given) => confusion_paths' = confusion_paths

\* C4: after any update calls every bucket's count is the length of its confidence
\* list, the four counts add up to the number of labels gone through, every path
\* list is at most as long as its count and exactly as long when every call gave
\* paths; an update with paths=None leaves the path lists as they were.
C4_BucketSizes == [](C4_Counts) /\ [][C4_NoPathsStep]_vars

\* a tracker fed one batch with paths and one without
C4_Witness ==
    /\ batches_cnt = 2
    /\ ~paths_always
    /\ \E k \in Keys : Len(confusion_paths[k]) >= 1
    /\ \E k \in Keys : Len(confusion_paths[k]) < confusion_cnt[k]

\* C5: after n >= 1 update calls batches_cnt is n, total_loss is the sum of the n
\* loss arguments, and avg_loss * batches_cnt = total_loss.
C5_Loss ==
    /\ batches_cnt = Len(loss_args)
    /\ total_loss = SumSeq(loss_args)
    /\ batches_cnt >= 1 => avg_loss.num * batches_cnt = total_loss * avg_loss.den

\* two update calls with different losses, the first over an empty batch and the
\* second over a batch of two
C5_Witness ==
    /\ batches_cnt = 2
    /\ loss_args[1] # loss_args[2]
    /\ ret.op = "update" /\ Len(ret.labels) = 2 /\ labels_seen = 2
    /\ avg_loss.den = 2

Getters == {"get_accuracy", "get_precision", "get_recall"}

\* the getter result r is the division-by-zero error exactly when den = 0, and is
\* num / den otherwise
RatioOrError(r, num, den) ==
    /\ r.status = "ZeroDivisionError" <=> den = 0
    /\ den # 0 => r.status = "ok" /\ r.value.num * den = num * r.value.den

C8_Results ==
    /\ ret.op = "get_precision" =>
           RatioOrError(ret, confusion_cnt["tp"],
                        confusion_cnt["tp"] + confusion_cnt["fp"])
    /\ ret.op = "get_recall" =>
           RatioOrError(ret, confusion_cnt["tp"],
                        confusion_cnt["tp"] + confusion_cnt["fn"])
    /\ (ret.op = "get_accuracy" /\ labels_seen = 0) => ret.status # "ok"

C8_GetterStep == ret'.op \in Getters => UNCHANGED <<trackerVars, historyVars>>

\* C8: get_precision raises the division-by-zero error exactly when tp + fp = 0 and
\* returns tp / (tp + fp) otherwise, get_recall likewise with tp + fn, get_accuracy
\* has no numeric result when no label has been gone through, and no getter changes
\* the tracker.
C8_Getters == [](C8_Results) /\ [][C8_GetterStep]_vars

\* get_precision raised on a tracker that has gone through labels
C8_Witness ==
    /\ ret.op = "get_precision"
    /\ ret.status = "ZeroDivisionError"
    /\ labels_seen >= 2
    /\ confusion_cnt["fn"] >= 1

====
